---- MODULE Spec2Model ----
(***************************************************************************)
(* Boundary Analysis dashboard (site.py): the load_data pipeline that      *)
(* turns a ball-by-ball log into the boundary table and its summaries, and *)
(* the Single Year view that reads them.                                   *)
(*                                                                         *)
(* Tables are sequences of records (one record per row, in row order);     *)
(* grouped results, whose row order no reader depends on, are sets of      *)
(* records.  A quotient the code computes in floating point is kept as the *)
(* exact fraction [num, den].                                              *)
(***************************************************************************)
EXTENDS Integers, Sequences, FiniteSets, TLC

(***************************************************************************)
(* Bounds of the input table.                                              *)
(***************************************************************************)
MaxRows == 3
MaxMatch == 2

(***************************************************************************)
(* Missing values.  NaN is the missing number (a shifted-off value, a NaT  *)
(* year), NA the missing string read from an empty csv field, None the     *)
(* missing label classify_next_ball returns.                               *)
(***************************************************************************)
NaN == -1
NA == "<NA>"
None == "<None>"

ORDER == {"0", "1", "2", "3", "4", "6", "Other"}

(***************************************************************************)
(* Date strings, as sequences of characters.                               *)
(***************************************************************************)
Chars(a, b, c, d, e, f, g, h, i, j) == <<a, b, c, d, e, f, g, h, i, j>>

Date2020 == Chars("1", "5", "/", "0", "4", "/", "2", "0", "2", "0")
Date2021 == Chars("0", "3", "/", "0", "5", "/", "2", "0", "2", "1")
DateIso == Chars("2", "0", "2", "0", "-", "0", "4", "-", "1", "5")

DateStrings == {Date2020, Date2021, DateIso}

Digits == {"0", "1", "2", "3", "4", "5", "6", "7", "8", "9"}

DigitVal(c) ==
    CASE c = "0" -> 0 [] c = "1" -> 1 [] c = "2" -> 2 [] c = "3" -> 3
      [] c = "4" -> 4 [] c = "5" -> 5 [] c = "6" -> 6 [] c = "7" -> 7
      [] c = "8" -> 8 [] c = "9" -> 9

RECURSIVE ToInt(_)
ToInt(s) ==
    IF s = <<>> THEN 0
    ELSE 10 * ToInt(SubSeq(s, 1, Len(s) - 1)) + DigitVal(s[Len(s)])

AllDigits(s) == \A i \in 1..Len(s) : s[i] \in Digits

IsLeap(y) == (y % 4 = 0 /\ y % 100 # 0) \/ y % 400 = 0

DaysIn(m, y) ==
    IF m = 2 THEN (IF IsLeap(y) THEN 29 ELSE 28)
    ELSE IF m \in {4, 6, 9, 11} THEN 30 ELSE 31

(***************************************************************************)
(* pd.to_datetime(s, format="%d/%m/%Y", errors="coerce"): the day <<y, m,  *)
(* d>> that a string of the form D[D]/M[M]/YYYY names, NaT for a string of *)
(* another form and for one that names no calendar day.                    *)
(***************************************************************************)
NaT == <<>>

to_datetime_any_format(s) ==
    LET digits == SelectSeq(s, LAMBDA c : c \in Digits)
    IN  IF Len(digits) # 8 THEN NaT
        ELSE IF s[3] = "/"
             THEN <<ToInt(SubSeq(digits, 5, 8)), ToInt(SubSeq(digits, 3, 4)),
                    ToInt(SubSeq(digits, 1, 2))>>
             ELSE <<ToInt(SubSeq(digits, 1, 4)), ToInt(SubSeq(digits, 5, 6)),
                    ToInt(SubSeq(digits, 7, 8))>>

to_datetime(s) ==
    LET slashes == {i \in 1..Len(s) : s[i] = "/"}
    IN  IF Cardinality(slashes) # 2 THEN NaT
        ELSE
          LET p1 == CHOOSE i \in slashes : \A j \in slashes : i <= j
              p2 == CHOOSE i \in slashes : \A j \in slashes : i >= j
              dd == SubSeq(s, 1, p1 - 1)
              mm == SubSeq(s, p1 + 1, p2 - 1)
              yy == SubSeq(s, p2 + 1, Len(s))
          IN  IF /\ Len(dd) \in {1, 2} /\ Len(mm) \in {1, 2} /\ Len(yy) = 4
                 /\ AllDigits(dd) /\ AllDigits(mm) /\ AllDigits(yy)
                 /\ ToInt(mm) \in 1..12
                 /\ ToInt(yy) >= 1
                 /\ ToInt(dd) \in 1..DaysIn(ToInt(mm), ToInt(yy))
              THEN <<ToInt(yy), ToInt(mm), ToInt(dd)>>
              ELSE NaT

(***************************************************************************)
(* The date column after the conversion, per date string of the file.      *)
(***************************************************************************)
ParsedDates == [s \in DateStrings |-> to_datetime(s)]

(***************************************************************************)
(* df["date"].dt.year                                                      *)
(***************************************************************************)
dt_year(ts) == IF ts = NaT THEN NaN ELSE ts[1]

(***************************************************************************)
(* What one delivery can be: valid_ball, runs_batter, runs_total and       *)
(* extra_type of a dot ball, a four, a six and a wide.                     *)
(***************************************************************************)
Balls ==
    { [valid_ball |-> 1, runs_batter |-> 0, runs_total |-> 0, extra_type |-> NA],
      [valid_ball |-> 1, runs_batter |-> 4, runs_total |-> 4, extra_type |-> NA],
      [valid_ball |-> 1, runs_batter |-> 6, runs_total |-> 6, extra_type |-> NA],
      [valid_ball |-> 0, runs_batter |-> 0, runs_total |-> 1, extra_type |-> "wides"] }

(***************************************************************************)
(* Where a delivery can be in its innings, as <<over, ball_no>>: ball_no   *)
(* counts the balls of the over, so the same ball_no recurs in the next    *)
(* over.                                                                   *)
(***************************************************************************)
Positions == {<<1, 1>>, <<1, 2>>, <<2, 1>>}

(***************************************************************************)
(* The rows of IPL_small.csv: line k of the file is csv[k].  The           *)
(* deliveries are all of innings 1, so the partitions are the matches.     *)
(***************************************************************************)
CsvRow(k, m, pos, d, ball) ==
    [row |-> k, match_id |-> m, innings |-> 1, over |-> pos[1], ball_no |-> pos[2],
     date |-> d] @@ ball

(***************************************************************************)
(* Helpers on sets of numbers.                                             *)
(***************************************************************************)
Max(S) == CHOOSE x \in S : \A y \in S : y <= x
Min(S) == CHOOSE x \in S : \A y \in S : x <= y

RECURSIVE Sum(_, _)
Sum(f, S) ==
    IF S = {} THEN 0
    ELSE LET x == CHOOSE y \in S : TRUE IN f[x] + Sum(f, S \ {x})

(***************************************************************************)
(* df.sort_values(["match_id", "innings", "over", "ball_no"]): rows in     *)
(* ascending lexicographic order of the four columns, rows of equal key in *)
(* their order in the input (a multi-column sort is a stable lexsort).     *)
(***************************************************************************)
SortKey(r) == <<r.match_id, r.innings, r.over, r.ball_no>>

LexLess(a, b) ==
    LET d == {i \in 1..Len(a) : a[i] # b[i]}
    IN  d # {} /\ a[Min(d)] < b[Min(d)]

InsertRow(r, s) ==
    LET k == Cardinality({j \in 1..Len(s) : ~LexLess(SortKey(r), SortKey(s[j]))})
    IN  SubSeq(s, 1, k) \o <<r>> \o SubSeq(s, k + 1, Len(s))

RECURSIVE sort_values(_)
sort_values(t) ==
    IF t = <<>> THEN <<>>
    ELSE InsertRow(t[Len(t)], sort_values(SubSeq(t, 1, Len(t) - 1)))

(***************************************************************************)
(* reset_index(drop=True): row p of the table gets index label p - 1.      *)
(***************************************************************************)
reset_index(t) == [p \in 1..Len(t) |-> t[p] @@ [idx |-> p - 1]]

(***************************************************************************)
(* A partition is the rows of one (match_id, innings).                     *)
(***************************************************************************)
Partition(r) == <<r.match_id, r.innings>>

(***************************************************************************)
(* groupby(["match_id", "innings"])["ball_no"].max(), merged back on the   *)
(* partition key: the largest ball_no of the row's partition.              *)
(***************************************************************************)
last_ball_no(t, r) ==
    Max({t[j].ball_no : j \in {k \in 1..Len(t) : Partition(t[k]) = Partition(r)}})

(***************************************************************************)
(* groupby(["match_id", "innings"])[col].shift(-1) at row p: the value of  *)
(* the next row of the table that is in the same partition, missing when   *)
(* no later row is.                                                        *)
(***************************************************************************)
NextInGroup(t, p) ==
    {j \in (p + 1)..Len(t) : Partition(t[j]) = Partition(t[p])}

shift_runs_total_flat(t, p) ==
    IF p = Len(t) THEN NaN ELSE t[p + 1].runs_total

shift_runs_total(t, p) ==
    IF NextInGroup(t, p) = {} THEN NaN ELSE t[Min(NextInGroup(t, p))].runs_total

shift_extra_type(t, p) ==
    IF NextInGroup(t, p) = {} THEN NA ELSE t[Min(NextInGroup(t, p))].extra_type

is_boundary(r) == r.valid_ball = 1 /\ r.runs_batter \in {4, 6}

(***************************************************************************)
(* The df that load_data returns: the csv rows with year, sorted and       *)
(* re-indexed, with last_ball_no, is_boundary and the two next_* columns.  *)
(***************************************************************************)
WithYear(t) ==
    [p \in 1..Len(t) |->
        [date |-> ParsedDates[t[p].date], year |-> dt_year(ParsedDates[t[p].date])]
            @@ t[p]]

Sequenced(t) == reset_index(sort_values(WithYear(t)))

MakeDf(t) ==
    LET s == Sequenced(t)
    IN  [p \in 1..Len(s) |->
            s[p] @@ [last_ball_no    |-> last_ball_no(s, s[p]),
                     is_boundary     |-> is_boundary(s[p]),
                     next_runs_total |-> shift_runs_total(s, p),
                     next_extra_type |-> shift_extra_type(s, p)]]

(***************************************************************************)
(* str(int(x)) of a number x >= 0.                                         *)
(***************************************************************************)
Digit(n) ==
    CASE n = 0 -> "0" [] n = 1 -> "1" [] n = 2 -> "2" [] n = 3 -> "3"
      [] n = 4 -> "4" [] n = 5 -> "5" [] n = 6 -> "6" [] n = 7 -> "7"
      [] n = 8 -> "8" [] n = 9 -> "9"

RECURSIVE StrInt(_)
StrInt(n) == IF n < 10 THEN Digit(n) ELSE StrInt(n \div 10) \o Digit(n % 10)

(***************************************************************************)
(* classify_next_ball(row)                                                 *)
(***************************************************************************)
classify_next_ball_upto6(row) ==
    IF row.next_runs_total = NaN THEN None
    ELSE IF /\ row.next_runs_total \in 0..6
            /\ (row.next_extra_type = NA \/ row.next_extra_type = "")
         THEN StrInt(row.next_runs_total)
         ELSE "Other"

classify_next_ball(row) ==
    IF row.next_runs_total = NaN THEN None
    ELSE IF /\ row.next_runs_total \in {0, 1, 2, 3, 4, 6}
            /\ (row.next_extra_type = NA \/ row.next_extra_type = "")
         THEN StrInt(row.next_runs_total)
         ELSE "Other"

(***************************************************************************)
(* boundary_df: the boundary rows of df whose ball_no is not the           *)
(* partition's last_ball_no, each with its next_ball_outcome.              *)
(***************************************************************************)
InBoundaryDf_any_ball(r) == r.is_boundary

InBoundaryDf(r) == r.is_boundary /\ r.ball_no # r.last_ball_no

apply_classify(t) ==
    [p \in 1..Len(t) |-> t[p] @@ [next_ball_outcome |-> classify_next_ball(t[p])]]

MakeBoundaryDf(d) == apply_classify(SelectSeq(d, InBoundaryDf))

Rows(t) == {t[p] : p \in 1..Len(t)}

(***************************************************************************)
(* summary: boundary_df grouped by (year, runs_batter, next_ball_outcome)  *)
(* with the size of each group (groupby drops the rows with a missing      *)
(* key), then percentage = count / (sum of count over the rows of the same *)
(* (year, runs_batter)) * 100.                                             *)
(***************************************************************************)
SummaryKey(r) == <<r.year, r.runs_batter, r.next_ball_outcome>>

HasSummaryKey(r) == r.year # NaN /\ r.next_ball_outcome # None

SummaryCounts(b) ==
    { [year |-> k[1], runs_batter |-> k[2], next_ball_outcome |-> k[3],
       count |-> Cardinality({p \in 1..Len(b) : HasSummaryKey(b[p]) /\ SummaryKey(b[p]) = k})] :
      k \in {SummaryKey(r) : r \in {x \in Rows(b) : HasSummaryKey(x)}} }

PercentageGroup_by_year(s, r) == {x \in s : x.year = r.year}

PercentageGroup(s, r) ==
    {x \in s : x.year = r.year /\ x.runs_batter = r.runs_batter}

Percentage(s, r) ==
    LET g == PercentageGroup(s, r)
        cnt == [x \in g |-> x.count]
    IN  [num |-> r.count * 100, den |-> Sum(cnt, g)]

MakeSummary(b) ==
    LET s == SummaryCounts(b)
    IN  { r @@ [percentage |-> Percentage(s, r)] : r \in s }

(***************************************************************************)
(* dot_ball_summary: per (year, runs_batter) group of boundary_df, the     *)
(* number of rows with next_ball_outcome "0" over the number of rows of    *)
(* the group, times 100.                                                   *)
(***************************************************************************)
DotGroup(b, y, rb) ==
    {p \in 1..Len(b) : b[p].year = y /\ b[p].runs_batter = rb}

dot_ball_pct(b, y, rb) ==
    [num |-> Cardinality({p \in DotGroup(b, y, rb) : b[p].next_ball_outcome = "0"}) * 100,
     den |-> Cardinality(DotGroup(b, y, rb))]

MakeDotBallSummary(b) ==
    { [year |-> k[1], runs_batter |-> k[2], dot_ball_pct |-> dot_ball_pct(b, k[1], k[2])] :
      k \in {<<r.year, r.runs_batter>> : r \in {x \in Rows(b) : x.year # NaN}} }

(***************************************************************************)
(* avg_next3 = df.groupby(["year", "innings"])["runs_total"]               *)
(*               .rolling(3).sum().shift(-1).reset_index(name="next3_sum") *)
(*                                                                         *)
(* Grouped(d): the rows of df with a year, group after group in ascending  *)
(* (year, innings), each group in df order.  Rolling3(o, k): the sum of    *)
(* runs_total over row k and the two rows before it in its group, missing  *)
(* for the first two rows of a group.  The shift then moves every value of *)
(* the concatenated series up by one row, across the groups.               *)
(***************************************************************************)
RollKey(r) == <<r.year, r.innings>>

Grouped(d) ==
    LET keep == SelectSeq(d, LAMBDA r : r.year # NaN)
        n == Len(keep)
        Before(i, j) ==
            \/ LexLess(RollKey(keep[i]), RollKey(keep[j]))
            \/ RollKey(keep[i]) = RollKey(keep[j]) /\ i < j
        rank(i) == 1 + Cardinality({j \in 1..n : Before(j, i)})
    IN  [p \in 1..n |-> keep[CHOOSE i \in 1..n : rank(i) = p]]

Rolling3(o, k) ==
    IF k >= 3 /\ RollKey(o[k - 2]) = RollKey(o[k])
    THEN o[k - 2].runs_total + o[k - 1].runs_total + o[k].runs_total
    ELSE NaN

ShiftUp(o, k) == IF k < Len(o) THEN Rolling3(o, k + 1) ELSE NaN

MakeAvgNext3(d) ==
    LET o == Grouped(d)
    IN  [k \in 1..Len(o) |->
            [year |-> o[k].year, innings |-> o[k].innings, level_2 |-> o[k].idx,
             next3_sum |-> ShiftUp(o, k)]]

(***************************************************************************)
(* The Single Year view.                                                   *)
(*   years       sorted(summary["year"].dropna().unique())                 *)
(*   data        the summary rows of the selected year and boundary        *)
(*   year_df     the valid balls of df in the selected year                *)
(*   trend_data  the valid balls of df counted per (year, runs_batter),    *)
(*               kept for runs_batter 4 and 6                              *)
(*   next3_avg   the mean of the next3_sum values of the year that are not *)
(*               missing (NaN when there is none)                          *)
(***************************************************************************)
Years(s) == {r.year : r \in s}

ViewData(s, y, b) == {r \in s : r.year = y /\ r.runs_batter = b}

YearDf(d, y) == {p \in 1..Len(d) : d[p].year = y /\ d[p].valid_ball = 1}

CountRunsBatter(d, y, rb) == Cardinality({p \in YearDf(d, y) : d[p].runs_batter = rb})

TotalMatches(d, y) == Cardinality({d[p].match_id : p \in YearDf(d, y)})

TrendGroup_not_last(d, y, rb) ==
    {p \in 1..Len(d) :
        /\ d[p].valid_ball = 1 /\ d[p].year = y /\ d[p].runs_batter = rb
        /\ d[p].ball_no # d[p].last_ball_no}

TrendGroup(d, y, rb) ==
    {p \in 1..Len(d) : d[p].valid_ball = 1 /\ d[p].year = y /\ d[p].runs_batter = rb}

MakeTrendData(d) ==
    LET valid == {r \in Rows(d) : r.valid_ball = 1 /\ r.year # NaN}
        all == { [year |-> k[1], runs_batter |-> k[2],
                  count |-> Cardinality(TrendGroup(d, k[1], k[2]))] :
                 k \in {<<r.year, r.runs_batter>> : r \in valid} }
    IN  {r \in all : r.runs_batter \in {4, 6}}

Next3Avg(a, y) ==
    LET ps == {k \in 1..Len(a) : a[k].year = y /\ a[k].next3_sum # NaN}
        v == [k \in ps |-> a[k].next3_sum]
    IN  IF ps = {} THEN [num |-> NaN, den |-> 1]
        ELSE [num |-> Sum(v, ps), den |-> Cardinality(ps)]

NoCards == [total_fours |-> 0, total_sixes |-> 0, total_matches |-> 0,
            next3_avg |-> [num |-> NaN, den |-> 1]]

(***************************************************************************)
(* State.                                                                  *)
(*   pc    "start" before load_data has run, "loaded" once its result is   *)
(*         cached, "single" when the Single Year view is drawn             *)
(*   csv   the rows of IPL_small.csv                                       *)
(*   df, summary, boundary_df, dot_ball_summary, avg_next3                 *)
(*         the five values load_data returns                               *)
(*   year, boundary   the sidebar selection                                *)
(*   data, cards, trend_data   what the view shows                         *)
(***************************************************************************)
VARIABLES pc, csv, df, summary, boundary_df, dot_ball_summary, avg_next3,
          year, boundary, data, cards, trend_data

vars == <<pc, csv, df, summary, boundary_df, dot_ball_summary, avg_next3,
          year, boundary, data, cards, trend_data>>

loaded == <<csv, df, summary, boundary_df, dot_ball_summary, avg_next3>>

view == <<year, boundary, data, cards, trend_data>>

NothingShown ==
    /\ summary = {}
    /\ dot_ball_summary = {}
    /\ avg_next3 = <<>>
    /\ year = NaN
    /\ boundary = 4
    /\ data = {}
    /\ cards = NoCards
    /\ trend_data = {}

Init ==
    /\ pc = "start"
    /\ \E n \in 1..MaxRows :
         \E ms \in [1..n -> 1..MaxMatch], ps \in [1..n -> Positions],
            ds \in [1..n -> DateStrings], balls \in [1..n -> Balls] :
           csv = [k \in 1..n |-> CsvRow(k, ms[k], ps[k], ds[k], balls[k])]
    /\ df = <<>>
    /\ boundary_df = <<>>
    /\ NothingShown

(***************************************************************************)
(* load_data(): runs once, its result is cached.                           *)
(***************************************************************************)
load_data ==
    /\ pc = "start"
    /\ pc' = "loaded"
    /\ df' = MakeDf(csv)
    /\ boundary_df' = MakeBoundaryDf(df')
    /\ summary' = MakeSummary(boundary_df')
    /\ dot_ball_summary' = MakeDotBallSummary(boundary_df')
    /\ avg_next3' = MakeAvgNext3(df')
    /\ UNCHANGED <<csv, view>>

(***************************************************************************)
(* A run of the script in "Single Year" mode with the slider on y and the  *)
(* radio on b.  The slider ranges over min(years)..max(years), so the run  *)
(* needs at least one year in summary.                                     *)
(***************************************************************************)
SingleYearView(y, b) ==
    /\ pc \in {"loaded", "single"}
    /\ b \in {4, 6}
    /\ pc' = "single"
    /\ year' = y
    /\ boundary' = b
    /\ data' = ViewData(summary, y, b)
    /\ cards' = [total_fours   |-> CountRunsBatter(df, y, 4),
                 total_sixes   |-> CountRunsBatter(df, y, 6),
                 total_matches |-> TotalMatches(df, y),
                 next3_avg     |-> Next3Avg(avg_next3, y)]
    /\ trend_data' = MakeTrendData(df)
    /\ UNCHANGED loaded

SelectYear ==
    /\ Years(summary) # {}
    /\ \E y \in Min(Years(summary))..Max(Years(summary)), b \in {4, 6} :
         SingleYearView(y, b)

Next == load_data \/ SelectYear

Spec == Init /\ [][Next]_vars

(***************************************************************************)
(* classify_next_ball on its own: a one-row table whose next_runs_total    *)
(* and next_extra_type are any of the values below, then the apply.        *)
(***************************************************************************)
MaxRuns == 7

NextRuns == {NaN} \cup 0..MaxRuns

ExtraTypes == {NA, "", "wides", "noballs", "byes", "legbyes"}

ClassifyInit ==
    /\ pc = "row"
    /\ csv = <<>>
    /\ df = <<>>
    /\ \E r \in NextRuns, e \in ExtraTypes :
         boundary_df = << [next_runs_total |-> r, next_extra_type |-> e] >>
    /\ NothingShown

ClassifyRow ==
    /\ pc = "row"
    /\ pc' = "classified"
    /\ boundary_df' = apply_classify(boundary_df)
    /\ UNCHANGED <<csv, df, summary, dot_ball_summary, avg_next3, view>>

SpecClassify == ClassifyInit /\ [][ClassifyRow]_vars

(***************************************************************************)
(* The deliveries of the file, told apart by their line k, and the order   *)
(* of an innings read off the file itself: within a partition, ascending   *)
(* (over, ball_no), deliveries of equal (over, ball_no) in file order.     *)
(***************************************************************************)
Deliveries == 1..Len(csv)

SortPos(k) == <<csv[k].over, csv[k].ball_no, k>>

After(k) ==
    {j \in Deliveries :
        Partition(csv[j]) = Partition(csv[k]) /\ LexLess(SortPos(k), SortPos(j))}

Successor(k) ==
    CHOOSE j \in After(k) : \A i \in After(k) : i = j \/ LexLess(SortPos(j), SortPos(i))

PartitionOf(k) == {j \in Deliveries : Partition(csv[j]) = Partition(csv[k])}

HasMaxBallNo(k) == \A j \in PartitionOf(k) : csv[j].ball_no <= csv[k].ball_no

IsBoundary(k) == csv[k].valid_ball = 1 /\ csv[k].runs_batter \in {4, 6}

DfRow(k) == df[CHOOSE p \in 1..Len(df) : df[p].row = k]

InBoundarySet(k) == \E q \in 1..Len(boundary_df) : boundary_df[q].row = k

BoundaryRow(k) == boundary_df[CHOOSE q \in 1..Len(boundary_df) : boundary_df[q].row = k]

AllSequenced ==
    /\ Len(df) = Len(csv)
    /\ \A k \in Deliveries : \E p \in 1..Len(df) : df[p].row = k

NextFromSuccessor(k) ==
    IF After(k) = {}
    THEN DfRow(k).next_runs_total = NaN /\ DfRow(k).next_extra_type = NA
    ELSE /\ DfRow(k).next_runs_total = csv[Successor(k)].runs_total
         /\ DfRow(k).next_extra_type = csv[Successor(k)].extra_type

(***************************************************************************)
(* C1: after load_data every delivery that has a successor in its          *)
(* partition carries the successor's runs_total and extra_type in its      *)
(* next_* columns, and the last delivery of every partition has both       *)
(* missing: no value crosses from one partition into another.              *)
(***************************************************************************)
C1_NextIsSuccessorInPartition ==
    pc # "start" => AllSequenced /\ \A k \in Deliveries : NextFromSuccessor(k)

C1_Witness ==
    /\ pc = "loaded"
    /\ \E p \in 1..(Len(df) - 1) :
         /\ Partition(df[p]) # Partition(df[p + 1])
         /\ df[p].next_runs_total = NaN
         /\ \E q \in 1..(Len(df) - 1) :
              /\ Partition(df[q]) = Partition(df[q + 1])
              /\ df[q].next_runs_total = df[q + 1].runs_total

(***************************************************************************)
(* C2: boundary_df holds exactly the boundary deliveries (valid ball,      *)
(* batter runs 4 or 6) that have a successor in their partition.           *)
(***************************************************************************)
C2_BoundarySetIsBoundariesWithSuccessor ==
    pc # "start" =>
        \A k \in Deliveries : InBoundarySet(k) <=> (IsBoundary(k) /\ After(k) # {})

(***************************************************************************)
(* C3 as stated: a delivery whose ball_no is the largest of its partition  *)
(* has a missing next_runs_total and is not in boundary_df.                *)
(***************************************************************************)
C3_MaxBallNoHasNoNext ==
    pc # "start" =>
        \A k \in Deliveries :
            HasMaxBallNo(k) => DfRow(k).next_runs_total = NaN /\ ~InBoundarySet(k)

(***************************************************************************)
(* C3 as amended: a delivery whose ball_no is the largest of its partition *)
(* is not in boundary_df, boundary or not; its next_runs_total is missing  *)
(* when it is the last delivery of the partition and is its successor's    *)
(* runs_total when a later over repeats a smaller ball_no.                 *)
(***************************************************************************)
C3_MaxBallNoExcluded ==
    pc # "start" =>
        \A k \in Deliveries :
            HasMaxBallNo(k) =>
                /\ ~InBoundarySet(k)
                /\ After(k) = {} => DfRow(k).next_runs_total = NaN
                /\ After(k) # {} =>
                       DfRow(k).next_runs_total = csv[Successor(k)].runs_total

C3_Witness ==
    /\ pc = "loaded"
    /\ \E k \in Deliveries :
         /\ HasMaxBallNo(k) /\ IsBoundary(k) /\ After(k) # {}
         /\ DfRow(k).next_runs_total # NaN
         /\ ~InBoundarySet(k)
         /\ \E j \in Deliveries :
              HasMaxBallNo(j) /\ IsBoundary(j) /\ After(j) = {} /\ ~InBoundarySet(j)

(***************************************************************************)
(* C4: classify_next_ball gives None for a missing next_runs_total, else   *)
(* the decimal string of next_runs_total when that is one of 0 1 2 3 4 6   *)
(* and next_extra_type is missing or empty, else "Other"; the result is    *)
(* one of the seven labels or None.                                        *)
(***************************************************************************)
LabelOf(r) ==
    CASE r = 0 -> "0" [] r = 1 -> "1" [] r = 2 -> "2" [] r = 3 -> "3"
      [] r = 4 -> "4" [] r = 6 -> "6"

ExpectedLabel(r, e) ==
    IF r = NaN THEN None
    ELSE IF r \in {0, 1, 2, 3, 4, 6} /\ e \in {NA, ""} THEN LabelOf(r)
    ELSE "Other"

C4_ClassifierRule ==
    pc = "classified" =>
        \A p \in 1..Len(boundary_df) :
            LET row == boundary_df[p]
            IN  /\ row.next_ball_outcome =
                       ExpectedLabel(row.next_runs_total, row.next_extra_type)
                /\ row.next_ball_outcome \in ORDER \cup {None}
                /\ row.next_runs_total = 5 => row.next_ball_outcome = "Other"
                /\ (row.next_runs_total # NaN /\ row.next_extra_type \notin {NA, ""})
                       => row.next_ball_outcome = "Other"

C4_Witness ==
    /\ pc = "classified"
    /\ boundary_df[1].next_runs_total = 5
    /\ boundary_df[1].next_extra_type = NA
    /\ boundary_df[1].next_ball_outcome = "Other"

(***************************************************************************)
(* Fractions [num, den] with den > 0.                                      *)
(***************************************************************************)
FracEq(a, b) == a.num * b.den = b.num * a.den

RECURSIVE FracSum(_, _)
FracSum(f, S) ==
    IF S = {} THEN [num |-> 0, den |-> 1]
    ELSE LET x == CHOOSE y \in S : TRUE
             rest == FracSum(f, S \ {x})
         IN  [num |-> f[x].num * rest.den + rest.num * f[x].den,
              den |-> f[x].den * rest.den]

(***************************************************************************)
(* C5: in summary every row has count >= 1 (the number of boundary_df rows *)
(* of its year, runs_batter and outcome), its percentage is 100 * count    *)
(* over the sum of the counts of its (year, runs_batter) group, and the    *)
(* percentages of a group add up to 100; a group without a boundary_df row *)
(* has no summary row.                                                     *)
(***************************************************************************)
SummaryGroup(y, rb) == {r \in summary : r.year = y /\ r.runs_batter = rb}

BoundaryGroup(y, rb) ==
    {q \in 1..Len(boundary_df) : boundary_df[q].year = y /\ boundary_df[q].runs_batter = rb}

C5_PercentagesSumTo100 ==
    pc # "start" =>
        \A r \in summary :
            LET g == SummaryGroup(r.year, r.runs_batter)
                cnt == [x \in g |-> x.count]
                pct == [x \in g |-> x.percentage]
            IN  /\ r.count >= 1
                /\ r.count = Cardinality({q \in BoundaryGroup(r.year, r.runs_batter) :
                                 boundary_df[q].next_ball_outcome = r.next_ball_outcome})
                /\ r.percentage.den > 0
                /\ FracEq(r.percentage, [num |-> 100 * r.count, den |-> Sum(cnt, g)])
                /\ FracEq(FracSum(pct, g), [num |-> 100, den |-> 1])
                /\ BoundaryGroup(r.year, r.runs_batter) # {}

C5_Witness ==
    /\ pc = "loaded"
    /\ \E r1 \in summary, r2 \in summary :
         /\ r1.year = r2.year /\ r1.runs_batter = r2.runs_batter
         /\ r1.next_ball_outcome # r2.next_ball_outcome
         /\ FracEq(r1.percentage, [num |-> 50, den |-> 1])

(***************************************************************************)
(* C6: the next3_sum of a delivery is the sum of runs_total over the three *)
(* deliveries that follow it in its partition when there are three, and is *)
(* missing otherwise.  The formula also admits the reading in which the    *)
(* window starts at the delivery itself.                                   *)
(***************************************************************************)
RECURSIVE Following(_, _)
Following(k, n) ==
    IF n = 0 THEN <<>>
    ELSE IF After(k) = {} THEN <<>>
    ELSE <<Successor(k)>> \o Following(Successor(k), n - 1)

WindowSum(w) ==
    IF Len(w) < 3 THEN NaN
    ELSE csv[w[1]].runs_total + csv[w[2]].runs_total + csv[w[3]].runs_total

C6_Next3SumLooksForward ==
    pc # "start" =>
        \/ \A e \in Rows(avg_next3) :
               LET k == df[e.level_2 + 1].row
               IN  e.next3_sum = WindowSum(Following(k, 3))
        \/ \A e \in Rows(avg_next3) :
               LET k == df[e.level_2 + 1].row
               IN  e.next3_sum = WindowSum(<<k>> \o Following(k, 2))

(***************************************************************************)
(* C7: dot_ball_pct of a (year, runs_batter) group is 100 * (boundaries of *)
(* the group followed by a delivery classified "0") over (boundaries of    *)
(* the group that have a following delivery), and equals the percentage of *)
(* label "0" of the group in summary, 0 when summary has no such row.      *)
(***************************************************************************)
FollowedByDot(q) ==
    LET k == boundary_df[q].row
    IN  /\ After(k) # {}
        /\ ExpectedLabel(csv[Successor(k)].runs_total, csv[Successor(k)].extra_type) = "0"

ZeroPercentage(y, rb) ==
    LET z == {r \in SummaryGroup(y, rb) : r.next_ball_outcome = "0"}
    IN  IF z = {} THEN [num |-> 0, den |-> 1] ELSE (CHOOSE r \in z : TRUE).percentage

C7_DotBallPct ==
    pc # "start" =>
        \A r \in dot_ball_summary :
            LET g == BoundaryGroup(r.year, r.runs_batter)
                dots == Cardinality({q \in g : FollowedByDot(q)})
                followed == Cardinality({q \in g : After(boundary_df[q].row) # {}})
            IN  /\ r.dot_ball_pct.num * followed = 100 * dots * r.dot_ball_pct.den
                /\ FracEq(r.dot_ball_pct, ZeroPercentage(r.year, r.runs_batter))

(***************************************************************************)
(* C10: every row of boundary_df has a next_runs_total and a label among   *)
(* the seven of ORDER, so the counts of a summary group add up to the      *)
(* number of boundary_df rows of the group.                                *)
(***************************************************************************)
C10_BoundaryRowsAreClassified ==
    pc # "start" =>
        /\ \A q \in 1..Len(boundary_df) :
               /\ boundary_df[q].next_runs_total # NaN
               /\ boundary_df[q].next_ball_outcome \in ORDER
        /\ \A q \in 1..Len(boundary_df) :
               LET y == boundary_df[q].year
                   rb == boundary_df[q].runs_batter
                   g == SummaryGroup(y, rb)
                   cnt == [x \in g |-> x.count]
               IN  y # NaN => Sum(cnt, g) = Cardinality(BoundaryGroup(y, rb))

(***************************************************************************)
(* C8: a delivery whose date is not of the form DD/MM/YYYY is loaded with  *)
(* a missing year; no row of summary, dot_ball_summary or trend_data is    *)
(* keyed by a missing year; the delivery stays in df, where the delivery   *)
(* before it in its partition carries its runs_total and extra_type as     *)
(* next_* values and it carries those of its own successor.                *)
(***************************************************************************)
Unparsed(k) == csv[k].date = DateIso

C8_UnparsedDateKeepsSequencing ==
    pc # "start" =>
        /\ AllSequenced
        /\ \A k \in Deliveries :
               /\ Unparsed(k) <=> DfRow(k).year = NaN
               /\ Unparsed(k) => NextFromSuccessor(k)
               /\ (After(k) # {} /\ Unparsed(Successor(k))) => NextFromSuccessor(k)
        /\ \A r \in summary \cup dot_ball_summary \cup trend_data : r.year # NaN
        /\ \A e \in Rows(avg_next3) : e.year # NaN
        /\ \A r \in summary :
               r.count = Cardinality({k \in Deliveries :
                             /\ ~Unparsed(k)
                             /\ InBoundarySet(k)
                             /\ SummaryKey(BoundaryRow(k)) = SummaryKey(r)})

C8_Witness ==
    /\ pc = "single"
    /\ trend_data # {}
    /\ \E k \in Deliveries :
         /\ Unparsed(k)
         /\ IsBoundary(k)
         /\ InBoundarySet(k)
         /\ BoundaryRow(k).next_ball_outcome # None
         /\ \E j \in Deliveries : After(j) # {} /\ Successor(j) = k

(***************************************************************************)
(* C9: the trend count of a (year, runs_batter), runs_batter 4 or 6, is    *)
(* the number of deliveries of that year with valid_ball 1 and that        *)
(* runs_batter, last balls of an innings included; it is at least the      *)
(* number of boundary_df rows of the group and, for the selected year, it  *)
(* is the value of the Total Fours / Total Sixes card.                     *)
(***************************************************************************)
ValidWith(y, rb) ==
    {k \in Deliveries :
        /\ csv[k].valid_ball = 1
        /\ csv[k].runs_batter = rb
        /\ DfRow(k).year = y}

TrendCount(y, rb) ==
    LET rows == {r \in trend_data : r.year = y /\ r.runs_batter = rb}
    IN  IF rows = {} THEN 0 ELSE (CHOOSE r \in rows : TRUE).count

CardFor(rb) == IF rb = 4 THEN cards.total_fours ELSE cards.total_sixes

C9_TrendCountsAllBoundaries ==
    pc = "single" =>
        /\ \A r \in trend_data : r.runs_batter \in {4, 6} /\ r.count >= 1
        /\ \A r1 \in trend_data, r2 \in trend_data :
               (r1.year = r2.year /\ r1.runs_batter = r2.runs_batter) => r1 = r2
        /\ \A k \in Deliveries, rb \in {4, 6} :
               LET y == DfRow(k).year
               IN  y # NaN =>
                       /\ TrendCount(y, rb) = Cardinality(ValidWith(y, rb))
                       /\ TrendCount(y, rb) >= Cardinality(BoundaryGroup(y, rb))
                       /\ y = year => CardFor(rb) = TrendCount(y, rb)

C9_Witness ==
    /\ pc = "single"
    /\ \E r \in trend_data :
         /\ r.year = year
         /\ r.count > Cardinality(BoundaryGroup(r.year, r.runs_batter))
         /\ Cardinality(BoundaryGroup(r.year, r.runs_batter)) > 0
         /\ CardFor(r.runs_batter) = r.count

====
